---- MODULE Spec2Model ----
(***************************************************************************)
(* Model of the "nearby services" search route (server/routes/places.ts,   *)
(* kept here as src/unnamed/part_001) and of the shared Place type         *)
(* (src/shared/places.ts).                                                 *)
(*                                                                         *)
(* Strings that the code inspects character by character (names and tag    *)
(* values) are sequences of one-character strings, so that toLowerCase,    *)
(* trim, includes, replace and the regular expressions are computed as     *)
(* the code computes them.                                                 *)
(*                                                                         *)
(* Coordinates are integers: metres of arc north and east of (0 deg, 0     *)
(* deg).  All model coordinates lie within a few kilometres of that        *)
(* origin, where the haversine distance of calculateDistance agrees with   *)
(* the planar distance to well below a millimetre, so a distance is        *)
(* carried exactly as its SQUARE (an integer) and compared and rounded     *)
(* from there.                                                             *)
(***************************************************************************)
EXTENDS Integers, Sequences, FiniteSets, TLC

\* ------------------------------------------------------------------ bounds
\* longest free part of the provider's element list
MaxFree == 2
\* how many records beyond a category's cap the bulk part of the list holds
MaxOver == 1
\* longest list of the batches of records
MaxBatch == 3
\* how many searches the user of the page starts
MaxSearches == 2

\* --------------------------------------------------------- string literals
S_hospital == <<"h", "o", "s", "p", "i", "t", "a", "l">>
S_clinic == <<"c", "l", "i", "n", "i", "c">>
S_doctors == <<"d", "o", "c", "t", "o", "r", "s">>
S_pharmacy == <<"p", "h", "a", "r", "m", "a", "c", "y">>
S_bus_station == <<"b", "u", "s", "_", "s", "t", "a", "t", "i", "o", "n">>
S_bus_stop == <<"b", "u", "s", "_", "s", "t", "o", "p">>
S_station == <<"s", "t", "a", "t", "i", "o", "n">>
S_school == <<"s", "c", "h", "o", "o", "l">>
S_university == <<"u", "n", "i", "v", "e", "r", "s", "i", "t", "y">>
S_college == <<"c", "o", "l", "l", "e", "g", "e">>
S_kindergarten == <<"k", "i", "n", "d", "e", "r", "g", "a", "r", "t", "e", "n">>
S_yes == <<"y", "e", "s">>
S_Unknown == <<"U", "n", "k", "n", "o", "w", "n">>
S_test == <<"t", "e", "s", "t">>
S_example == <<"e", "x", "a", "m", "p", "l", "e">>
S_xxx == <<"x", "x", "x">>
S_temp == <<"t", "e", "m", "p">>
S_123 == <<"1", "2", "3">>
S_unnamed == <<"u", "n", "n", "a", "m", "e", "d">>
S_no_name == <<"n", "o", " ", "n", "a", "m", "e">>
S_construction == <<"c", "o", "n", "s", "t", "r", "u", "c", "t", "i", "o", "n">>
S_under_construction == <<"u", "n", "d", "e", "r", " ", "c", "o", "n", "s", "t", "r", "u", "c", "t", "i", "o", "n">>
S_closed == <<"c", "l", "o", "s", "e", "d">>
S_demolished == <<"d", "e", "m", "o", "l", "i", "s", "h", "e", "d">>
S_building == <<"b", "u", "i", "l", "d", "i", "n", "g">>
S_structure == <<"s", "t", "r", "u", "c", "t", "u", "r", "e">>
S_facility == <<"f", "a", "c", "i", "l", "i", "t", "y">>
S_site == <<"s", "i", "t", "e">>
S_bus_stop_name == <<"b", "u", "s", " ", "s", "t", "o", "p">>
S_cafe == <<"c", "a", "f", "e">>

\* ------------------------------------------------------ JavaScript values
\* the value of a property that is absent
Undefined == <<"undefined">>
\* what categorizePlace returns for a tag set no rule matches
Null == "null"

\* JavaScript truthiness of a string-or-undefined value
Truthy(v) == v # Undefined /\ v # <<>>

\* a || b
Or(a, b) == IF Truthy(a) THEN a ELSE b

\* obj.key, undefined when the key is absent
Prop(obj, key) == IF key \in DOMAIN obj THEN obj[key] ELSE Undefined

\* ------------------------------------------------------ character classes
UpperCase == {"A", "B", "C", "D", "E", "F", "G", "H", "I", "J", "K", "L", "M",
              "N", "O", "P", "Q", "R", "S", "T", "U", "V", "W", "X", "Y", "Z"}

LowerCase == {"a", "b", "c", "d", "e", "f", "g", "h", "i", "j", "k", "l", "m",
              "n", "o", "p", "q", "r", "s", "t", "u", "v", "w", "x", "y", "z"}

Digit == {"0", "1", "2", "3", "4", "5", "6", "7", "8", "9"}

\* \w of a JavaScript regular expression
WordChar == UpperCase \cup LowerCase \cup Digit \cup {"_"}

\* \s of a JavaScript regular expression, and what trim() removes
WhiteSpace == {" ", "\t"}

LowerOf ==
  [c \in UpperCase |->
     CASE c = "A" -> "a" [] c = "B" -> "b" [] c = "C" -> "c" [] c = "D" -> "d"
       [] c = "E" -> "e" [] c = "F" -> "f" [] c = "G" -> "g" [] c = "H" -> "h"
       [] c = "I" -> "i" [] c = "J" -> "j" [] c = "K" -> "k" [] c = "L" -> "l"
       [] c = "M" -> "m" [] c = "N" -> "n" [] c = "O" -> "o" [] c = "P" -> "p"
       [] c = "Q" -> "q" [] c = "R" -> "r" [] c = "S" -> "s" [] c = "T" -> "t"
       [] c = "U" -> "u" [] c = "V" -> "v" [] c = "W" -> "w" [] c = "X" -> "x"
       [] c = "Y" -> "y" [] c = "Z" -> "z"]

\* String.prototype.toLowerCase
ToLowerCase(s) ==
  [i \in 1..Len(s) |-> IF s[i] \in UpperCase THEN LowerOf[s[i]] ELSE s[i]]

\* String.prototype.trim
Trim(s) ==
  LET keep == {i \in 1..Len(s) : s[i] \notin WhiteSpace}
  IN IF keep = {} THEN <<>>
     ELSE LET first == CHOOSE i \in keep : \A j \in keep : i <= j
              last == CHOOSE i \in keep : \A j \in keep : j <= i
          IN SubSeq(s, first, last)

\* String.prototype.includes
Includes(s, pattern) ==
  \E i \in 0..(Len(s) - Len(pattern)) : SubSeq(s, i + 1, i + Len(pattern)) = pattern

\* s.replace(/[^\w\s]/g, "")
StripPunctuation(s) == SelectSeq(s, LAMBDA c : c \in WordChar \cup WhiteSpace)

\* /^[\d\W]+$/.test(s)
OnlyDigitsAndSymbols(s) ==
  /\ Len(s) >= 1
  /\ \A i \in 1..Len(s) : s[i] \in Digit \/ s[i] \notin WordChar

\* ------------------------------------------------------------- distances
RECURSIVE IsqrtIter(_, _, _)
IsqrtIter(x, lo, hi) ==
  IF lo >= hi THEN lo
  ELSE LET mid == (lo + hi + 1) \div 2
       IN IF mid * mid <= x THEN IsqrtIter(x, mid, hi) ELSE IsqrtIter(x, lo, mid - 1)

\* floor of the square root
Isqrt(x) == IsqrtIter(x, 0, IF x < 46340 THEN x ELSE 46340)

\* calculateDistance, as the square of the distance in metres
calculateDistanceSq(lat1, lon1, lat2, lon2) ==
  (lat2 - lat1) * (lat2 - lat1) + (lon2 - lon1) * (lon2 - lon1)

\* distance > metres, distance < metres, for a distance given by its square
DistGt(dsq, metres) == metres < 0 \/ dsq > metres * metres
DistLt(dsq, metres) == metres > 0 /\ dsq < metres * metres

\* Math.round(distance), for a distance given by its square
MathRound(dsq) == (Isqrt(4 * dsq) + 1) \div 2

\* ------------------------------------------------------------ categories
Categories == {"healthcare", "transport", "education"}

\* categorizePlace with a last rule that takes any amenity for education
categorizePlaceLoose(tags) ==
  LET amenity == Prop(tags, "amenity")
  IN IF Truthy(amenity) /\ amenity \in {S_hospital, S_clinic, S_doctors, S_pharmacy}
       THEN "healthcare"
     ELSE IF Truthy(Prop(tags, "healthcare")) THEN "healthcare"
     ELSE IF Truthy(amenity) /\ amenity \in {S_bus_station} THEN "transport"
     ELSE IF Prop(tags, "highway") = S_bus_stop \/ Truthy(Prop(tags, "public_transport"))
       THEN "transport"
     ELSE IF Prop(tags, "railway") = S_station THEN "transport"
     ELSE IF Truthy(amenity) THEN "education"
     ELSE Null

\* categorizePlace with the education rule moved before the transport rules
categorizePlaceEducationFirst(tags) ==
  LET amenity == Prop(tags, "amenity")
  IN IF Truthy(amenity) /\ amenity \in {S_hospital, S_clinic, S_doctors, S_pharmacy}
       THEN "healthcare"
     ELSE IF Truthy(Prop(tags, "healthcare")) THEN "healthcare"
     ELSE IF Truthy(amenity)
             /\ amenity \in {S_school, S_university, S_college, S_kindergarten}
       THEN "education"
     ELSE IF Truthy(amenity) /\ amenity \in {S_bus_station} THEN "transport"
     ELSE IF Prop(tags, "highway") = S_bus_stop \/ Truthy(Prop(tags, "public_transport"))
       THEN "transport"
     ELSE IF Prop(tags, "railway") = S_station THEN "transport"
     ELSE Null

categorizePlace(tags) ==
  LET amenity == Prop(tags, "amenity")
  IN IF Truthy(amenity) /\ amenity \in {S_hospital, S_clinic, S_doctors, S_pharmacy}
       THEN "healthcare"
     ELSE IF Truthy(Prop(tags, "healthcare")) THEN "healthcare"
     ELSE IF Truthy(amenity) /\ amenity \in {S_bus_station} THEN "transport"
     ELSE IF Prop(tags, "highway") = S_bus_stop \/ Truthy(Prop(tags, "public_transport"))
       THEN "transport"
     ELSE IF Prop(tags, "railway") = S_station THEN "transport"
     ELSE IF Truthy(amenity)
             /\ amenity \in {S_school, S_university, S_college, S_kindergarten}
       THEN "education"
     ELSE Null

\* ---------------------------------------------------------- name validator
invalidPatterns ==
  {S_test, S_example, S_xxx, S_temp, S_123, S_unnamed, S_no_name, S_construction,
   S_under_construction, S_closed, S_demolished}

genericPatterns == {S_building, S_structure, S_facility, S_site}

\* cleanPlaceName with the blacklist matched against the whole name
\* (invalidPatterns.includes(lowerName)) instead of as substrings
cleanPlaceNameWholeMatch(name) ==
  IF ~Truthy(name) THEN FALSE
  ELSE LET lowerName == Trim(ToLowerCase(name))
       IN IF Len(name) < 2 \/ Len(name) > 100 THEN FALSE
          ELSE IF lowerName \in invalidPatterns THEN FALSE
          ELSE IF \E pattern \in genericPatterns : lowerName = pattern THEN FALSE
          ELSE IF OnlyDigitsAndSymbols(name) THEN FALSE
          ELSE TRUE

\* cleanPlaceName with the fallback name "Unknown" rejected as well
cleanPlaceNameNoUnknown(name) ==
  IF ~Truthy(name) THEN FALSE
  ELSE LET lowerName == Trim(ToLowerCase(name))
       IN IF Len(name) < 2 \/ Len(name) > 100 THEN FALSE
          ELSE IF \E pattern \in invalidPatterns \cup {ToLowerCase(S_Unknown)} :
                    Includes(lowerName, pattern) THEN FALSE
          ELSE IF \E pattern \in genericPatterns : lowerName = pattern THEN FALSE
          ELSE IF OnlyDigitsAndSymbols(name) THEN FALSE
          ELSE TRUE

cleanPlaceName(name) ==
  IF ~Truthy(name) THEN FALSE
  ELSE LET lowerName == Trim(ToLowerCase(name))
       IN IF Len(name) < 2 \/ Len(name) > 100 THEN FALSE
          ELSE IF \E pattern \in invalidPatterns : Includes(lowerName, pattern) THEN FALSE
          ELSE IF \E pattern \in genericPatterns : lowerName = pattern THEN FALSE
          ELSE IF OnlyDigitsAndSymbols(name) THEN FALSE
          ELSE TRUE

\* ------------------------------------------------------------ deduplicator
isDuplicateWithin(place1, place2, threshold) ==
  IF ToLowerCase(place1.name) = ToLowerCase(place2.name)
    THEN DistLt(calculateDistanceSq(place1.lat, place1.lon, place2.lat, place2.lon),
                threshold)
  ELSE LET name1 == StripPunctuation(ToLowerCase(place1.name))
           name2 == StripPunctuation(ToLowerCase(place2.name))
       IN IF Includes(name1, name2) \/ Includes(name2, name1)
            THEN DistLt(calculateDistanceSq(place1.lat, place1.lon,
                                            place2.lat, place2.lon), threshold)
          ELSE FALSE

\* isDuplicate without its second test, the one on punctuation-stripped names
isDuplicateExactOnly(place1, place2) ==
  /\ ToLowerCase(place1.name) = ToLowerCase(place2.name)
  /\ DistLt(calculateDistanceSq(place1.lat, place1.lon, place2.lat, place2.lon), 50)

\* isDuplicate when only places of one category are compared
isDuplicateSameCategory(place1, place2) ==
  /\ place1.category = place2.category
  /\ isDuplicateWithin(place1, place2, 50)

\* isDuplicate with a guard against comparing a place with itself, by id
isDuplicateOfAnother(place1, place2) ==
  /\ place1.id # place2.id
  /\ isDuplicateWithin(place1, place2, 50)

\* isDuplicate(place1, place2) with the default threshold = 50
isDuplicate(place1, place2) == isDuplicateWithin(place1, place2, 50)

\* ------------------------------------------------------------------ scorer
specificAmenities == {S_hospital, S_clinic, S_pharmacy, S_school, S_university}

genericNames == {S_pharmacy, S_hospital, S_school, S_bus_stop_name}

\* scorePlaceQuality with the penalty tested on the name as written, not on its
\* lower-case form
scorePlaceQualityCaseSensitive(place) ==
    (IF Truthy(place.name) /\ place.name # S_Unknown THEN 20 ELSE 0)
  + (IF Truthy(place.details.operator) THEN 15 ELSE 0)
  + (IF place.details.emergency THEN 25 ELSE 0)
  + (IF Truthy(place.details.amenity) /\ place.details.amenity \in specificAmenities
       THEN 10 ELSE 0)
  + (IF place.category = "healthcare" THEN 5 ELSE 0)
  - (IF place.name \in genericNames THEN 5 ELSE 0)

\* scorePlaceQuality when a generic label does not count as a name: no +20
\* for it, and the penalty still
scorePlaceQualityGenericUnnamed(place) ==
    (IF Truthy(place.name) /\ place.name # S_Unknown
        /\ ToLowerCase(place.name) \notin genericNames THEN 20 ELSE 0)
  + (IF Truthy(place.details.operator) THEN 15 ELSE 0)
  + (IF place.details.emergency THEN 25 ELSE 0)
  + (IF Truthy(place.details.amenity) /\ place.details.amenity \in specificAmenities
       THEN 10 ELSE 0)
  + (IF place.category = "healthcare" THEN 5 ELSE 0)
  - (IF ToLowerCase(place.name) \in genericNames THEN 5 ELSE 0)

scorePlaceQuality(place) ==
    (IF Truthy(place.name) /\ place.name # S_Unknown THEN 20 ELSE 0)
  + (IF Truthy(place.details.operator) THEN 15 ELSE 0)
  + (IF place.details.emergency THEN 25 ELSE 0)
  + (IF Truthy(place.details.amenity) /\ place.details.amenity \in specificAmenities
       THEN 10 ELSE 0)
  + (IF place.category = "healthcare" THEN 5 ELSE 0)
  - (IF ToLowerCase(place.name) \in genericNames THEN 5 ELSE 0)

\* ------------------------------------------------------------ the ranker
categoryLimits == [healthcare |-> 12, transport |-> 10, education |-> 8]

\* CompareScored without the tie-break on distance
CompareScoredNoTieBreak(a, b) == b.qualityScore - a.qualityScore

\* the comparator handed to scoredPlaces.sort: negative when a goes first
CompareScored(a, b) ==
  IF b.qualityScore # a.qualityScore THEN b.qualityScore - a.qualityScore
  ELSE a.distance - b.distance

\* x put into the sorted sequence s, behind everything it does not precede
InsertSorted(x, s) ==
  LET later == {j \in 1..Len(s) : CompareScored(s[j], x) > 0}
      at == IF later = {} THEN Len(s) + 1
            ELSE CHOOSE j \in later : \A k \in later : j <= k
  IN SubSeq(s, 1, at - 1) \o <<x>> \o SubSeq(s, at, Len(s))

\* Array.prototype.sort with CompareScored: a stable sort
RECURSIVE SortScored(_)
SortScored(s) ==
  IF s = <<>> THEN <<>>
  ELSE InsertSorted(s[Len(s)], SortScored(SubSeq(s, 1, Len(s) - 1)))

\* { ...place, qualityScore: scorePlaceQuality(place) }
WithScore(place) == place @@ [qualityScore |-> scorePlaceQuality(place)]

\* --------------------------------------------------- first pass, one element
\* element.tags || {}
TagsOf(element) == IF "tags" \in DOMAIN element THEN element.tags ELSE <<>>

\* a numeric property that is present and truthy (not 0)
HasNumber(obj, key) == key \in DOMAIN obj /\ obj[key] # 0

\* element.lat || element.center?.lat (and the same for lon): <<v>>, or <<>>
\* when the result is undefined
CoordOf(element, key) ==
  IF HasNumber(element, key) THEN <<element[key]>>
  ELSE IF "center" \in DOMAIN element /\ key \in DOMAIN element.center
    THEN <<element.center[key]>>
  ELSE <<>>

\* !lat, for the result of CoordOf
Falsy(coord) == coord = <<>> \/ coord[1] = 0

\* element.tags?.name || element.tags?.operator || element.tags?.brand ||
\* element.tags?.amenity || "Unknown"
ResolveName(element) ==
  LET tags == TagsOf(element)
  IN Or(Prop(tags, "name"),
        Or(Prop(tags, "operator"),
           Or(Prop(tags, "brand"), Or(Prop(tags, "amenity"), S_Unknown))))

\* OutsideRadius with the tolerance mistyped as 1000
OutsideRadiusWide(dsq, radius) == DistGt(dsq, radius + 1000)

\* distance > searchRadius + 100
OutsideRadius(dsq, radius) == DistGt(dsq, radius + 100)

\* the body of the first loop for one element: <<place>> when the element is
\* pushed on rawPlaces, <<>> when one of the four `continue`s skips it
PlaceOf(element, cLat, cLon, radius) ==
  LET tags == TagsOf(element)
      category == categorizePlace(tags)
      lat == CoordOf(element, "lat")
      lon == CoordOf(element, "lon")
      name == ResolveName(element)
  IN IF category = Null THEN <<>>
     ELSE IF Falsy(lat) \/ Falsy(lon) THEN <<>>
     ELSE IF ~cleanPlaceName(name) THEN <<>>
     ELSE LET dsq == calculateDistanceSq(cLat, cLon, lat[1], lon[1])
          IN IF OutsideRadius(dsq, radius) THEN <<>>
             ELSE << [id |-> <<element.type, element.id>>,
                      name |-> name,
                      category |-> category,
                      lat |-> lat[1],
                      lon |-> lon[1],
                      distance |-> MathRound(dsq),
                      details |->
                        [operator |-> Prop(tags, "operator"),
                         emergency |-> (Prop(tags, "emergency") = S_yes),
                         amenity |-> Prop(tags, "amenity"),
                         highway |-> Prop(tags, "highway"),
                         public_transport |-> Prop(tags, "public_transport"),
                         healthcare |-> Prop(tags, "healthcare")]] >>

\* the first loop with `break` where the code has `continue`: it ends at the
\* first element that is skipped
RECURSIVE CollectFromUntilFailure(_, _, _, _)
CollectFromUntilFailure(els, cLat, cLon, radius) ==
  IF els = <<>> THEN <<>>
  ELSE LET first == PlaceOf(els[1], cLat, cLon, radius)
       IN IF first = <<>> THEN <<>>
          ELSE first \o CollectFromUntilFailure(Tail(els), cLat, cLon, radius)

\* the first loop over data.elements
RECURSIVE CollectFrom(_, _, _, _)
CollectFrom(els, cLat, cLon, radius) ==
  IF els = <<>> THEN <<>>
  ELSE CollectFrom(SubSeq(els, 1, Len(els) - 1), cLat, cLon, radius)
       \o PlaceOf(els[Len(els)], cLat, cLon, radius)

\* ------------------------------------------- requests and provider data
S_StThomasApos == <<"S", "t", " ", "T", "h", "o", "m", "a", "s", "'", " ", "H", "o", "s", "p", "i", "t", "a", "l">>
S_StThomas == <<"S", "t", " ", "T", "h", "o", "m", "a", "s", " ", "H", "o", "s", "p", "i", "t", "a", "l">>
S_TestClinic == <<"T", "e", "s", "t", " ", "C", "l", "i", "n", "i", "c", " ", "1", "2", "3">>
S_FarClinic == <<"F", "a", "r", " ", "C", "l", "i", "n", "i", "c">>
S_EdgeSchool == <<"E", "d", "g", "e", " ", "S", "c", "h", "o", "o", "l">>
S_HillSchool == <<"H", "i", "l", "l", " ", "S", "c", "h", "o", "o", "l">>
S_ValeSchool == <<"V", "a", "l", "e", " ", "S", "c", "h", "o", "o", "l">>
S_NHS == <<"N", "H", "S">>
S_Cafe == <<"C", "a", "f", "e">>

Alphabet == <<"A", "B", "C", "D", "E", "F", "G", "H", "I", "J", "K", "L", "M",
              "N", "O", "P", "Q", "R", "S", "T", "U", "V", "W", "X", "Y", "Z">>

\* an Overpass "node" element: direct coordinates
Node(id, lat, lon, tags) ==
  [type |-> "node", id |-> id, lat |-> lat, lon |-> lon, tags |-> tags]

\* an Overpass "way" element as `out center` returns it: a center only
Way(id, lat, lon, tags) ==
  [type |-> "way", id |-> id, center |-> [lat |-> lat, lon |-> lon], tags |-> tags]

\* The query string of a request.  The search centre is (10000, 10000).
\* texts of query parameters; a parameter the URL does not carry is Undefined
Q_10000 == <<"1", "0", "0", "0", "0">>
Q_1000 == <<"1", "0", "0", "0">>
Q_2000 == <<"2", "0", "0", "0">>
Q_abc == <<"a", "b", "c">>

DefaultRequest == [lat |-> Q_10000, lon |-> Q_10000, radius |-> Undefined]

NarrowRequest == [lat |-> Q_10000, lon |-> Q_10000, radius |-> Q_1000]

IncompleteRequests ==
  {[lat |-> Undefined, lon |-> Q_10000, radius |-> Undefined],
   [lat |-> Q_10000, lon |-> Undefined, radius |-> Q_2000]}

\* records the provider may return, by distance from the search centre:
\* 500 m and 510 m (names differing by an apostrophe), 300 m (blacklisted
\* name), 2105 m, exactly 2100 m, 400 m (no name tag at all), 141 m (no rule
\* matches), 700 m twice (same score, same distance)
Pool ==
  {Node(1, 10500, 10000, [name |-> S_StThomasApos, amenity |-> S_hospital,
                          emergency |-> S_yes, operator |-> S_NHS]),
   Node(2, 10510, 10000, [name |-> S_StThomas, amenity |-> S_hospital]),
   Node(3, 10300, 10000, [name |-> S_TestClinic, amenity |-> S_clinic]),
   Node(4, 12105, 10000, [name |-> S_FarClinic, amenity |-> S_clinic]),
   Node(5, 12100, 10000, [name |-> S_EdgeSchool, amenity |-> S_school]),
   Node(6, 10000, 10400, [highway |-> S_bus_stop]),
   Way(7, 10100, 10100, [name |-> S_Cafe, amenity |-> S_cafe]),
   Way(8, 10000, 10700, [name |-> S_HillSchool, amenity |-> S_school]),
   Node(9, 10000, 9300, [name |-> S_ValeSchool, amenity |-> S_school])}

FreeLists == UNION {[1..n -> Pool] : n \in 0..MaxFree}

\* the lists that go before or after a bulk
ShortLists == {f \in FreeLists : Len(f) < MaxFree}

\* the i-th of a run of distinct, valid records of one category, 60 m apart
\* going north from the centre; every second one names its operator
BulkElement(c, i) ==
  Node(100 + i, 10000 + 60 * i, 10000,
       [name |-> <<Alphabet[i], Alphabet[i], " ", "W", "a", "r", "d">>]
       @@ (CASE c = "healthcare" -> [amenity |-> S_doctors]
             [] c = "transport" -> [railway |-> S_station]
             [] c = "education" -> [amenity |-> S_college])
       @@ (IF i % 2 = 0 THEN [operator |-> S_NHS] ELSE <<>>))

Bulk(c, k) == [i \in 1..k |-> BulkElement(c, i)]

\* a bulk of one category that is one short of the cap, at the cap, or up to
\* MaxOver beyond it
BulkLists ==
  UNION {{Bulk(c, categoryLimits[c] - 1 + j) : j \in 0..(MaxOver + 1)} :
            c \in Categories}

\* the provider answers with a body that parses
Answer(elements) == [ok |-> TRUE, elements |-> elements]

\* the provider answers with an error status, or the fetch throws
NoAnswer == [ok |-> FALSE]

\* a request together with what the Overpass request comes back with
Worlds ==
  {[req |-> r, provider |-> Answer(f)] :
     r \in {DefaultRequest, NarrowRequest}, f \in FreeLists}
  \cup {[req |-> DefaultRequest, provider |-> Answer(b \o f)] :
          b \in BulkLists, f \in ShortLists}
  \cup {[req |-> DefaultRequest, provider |-> Answer(f \o b)] :
          b \in BulkLists, f \in ShortLists}
  \cup {[req |-> r, provider |-> NoAnswer] :
          r \in {DefaultRequest, NarrowRequest} \cup IncompleteRequests}
  \cup {[req |-> r, provider |-> Answer(<<>>)] : r \in IncompleteRequests}

\* ------------------------------------------------------------------ state
VARIABLES
  pc,              \* where the handler is
  req,             \* req.query
  provider,        \* what the provider answers to this request
  centerLat,
  centerLon,
  searchRadius,
  data,            \* the parsed provider response
  rawPlaces,
  uniquePlaces,
  scoredPlaces,
  places,
  categoryCounts,
  idx,             \* position of the running for-of loop
  res,             \* the response sent: NoResponse while none is
  run,             \* 1 for the request, 2 when it has been sent again
  firstRes,        \* the response of run 1, once run 2 has started
  parked           \* the handler's other invocation, while this one runs

\* the page of the client (the component Index)
VARIABLES
  shownPlaces,     \* the state `places` of the page
  isLoading,
  hasSearched,
  currentFetchRef, \* currentFetchRef.current: the number of a call, 0 for null
  calls,           \* the invocations of fetchPlaces, in the order they began
  timers,          \* the retries that setTimeout has scheduled
  started,         \* how many searches the user has started
  lastToast        \* the kind of the last toast, "none" before the first

page ==
  <<shownPlaces, isLoading, hasSearched, currentFetchRef, calls, timers, started,
    lastToast>>

handler ==
  <<pc, req, provider, centerLat, centerLon, searchRadius, data, rawPlaces,
    uniquePlaces, scoredPlaces, places, categoryCounts, idx, res, run, firstRes,
    parked>>

vars == <<handler, page>>

\* lines 17-23 and 35: the page as it is mounted
PageLoaded ==
  /\ shownPlaces = <<>>
  /\ isLoading = FALSE
  /\ hasSearched = FALSE
  /\ currentFetchRef = 0
  /\ calls = <<>>
  /\ timers = {}
  /\ started = 0
  /\ lastToast = "none"

locals ==
  <<centerLat, centerLon, searchRadius, data, rawPlaces, uniquePlaces,
    scoredPlaces, places, categoryCounts, idx>>

\* no response has been sent yet
NoResponse == [status |-> 0]

NoCounts == [healthcare |-> 0, transport |-> 0, education |-> 0]

\* there is no other invocation
NoFrame == [pc |-> "none"]

Init ==
  /\ pc = "start"
  /\ \E w \in Worlds : req = w.req /\ provider = w.provider
  /\ centerLat = 0
  /\ centerLon = 0
  /\ searchRadius = 0
  /\ data = [elements |-> <<>>]
  /\ rawPlaces = <<>>
  /\ uniquePlaces = <<>>
  /\ scoredPlaces = <<>>
  /\ places = <<>>
  /\ categoryCounts = NoCounts
  /\ idx = 1
  /\ res = NoResponse
  /\ run = 1
  /\ firstRes = NoResponse
  /\ parked = NoFrame
  /\ PageLoaded

\* the value that stands for NaN; no coordinate and no radius of the model is
\* negative
NaN == -1

DigitValue ==
  [c \in Digit |->
     CASE c = "0" -> 0 [] c = "1" -> 1 [] c = "2" -> 2 [] c = "3" -> 3
       [] c = "4" -> 4 [] c = "5" -> 5 [] c = "6" -> 6 [] c = "7" -> 7
       [] c = "8" -> 8 [] c = "9" -> 9]

\* the digits a text starts with
RECURSIVE LeadingDigits(_)
LeadingDigits(s) ==
  IF s = <<>> \/ s[1] \notin Digit THEN <<>>
  ELSE <<s[1]>> \o LeadingDigits(Tail(s))

RECURSIVE DecimalValue(_)
DecimalValue(digits) ==
  IF digits = <<>> THEN 0
  ELSE 10 * DecimalValue(SubSeq(digits, 1, Len(digits) - 1))
       + DigitValue[digits[Len(digits)]]

\* parseFloat / parseInt of a query parameter's text, for texts without sign,
\* fraction or leading white space: the number its leading digits spell, NaN
\* when it does not start with a digit
ParseNumber(param) ==
  IF LeadingDigits(param) = <<>> THEN NaN ELSE DecimalValue(LeadingDigits(param))

\* the body of the success response
ResultOf(out, cLat, cLon, radius) ==
  [places |-> out, searchCenter |-> [lat |-> cLat, lon |-> cLon], radius |-> radius]

\* lines 164-174: the parameters
Validate ==
  /\ pc = "start"
  /\ IF ~Truthy(req.lat) \/ ~Truthy(req.lon)
       THEN /\ res' = [status |-> 400,
                       body |-> [error |-> "Latitude and longitude are required"]]
            /\ pc' = "done"
            /\ UNCHANGED locals
       ELSE /\ centerLat' = ParseNumber(req.lat)
            /\ centerLon' = ParseNumber(req.lon)
            /\ searchRadius' = IF req.radius = Undefined THEN 2000
                               ELSE ParseNumber(req.radius)
            /\ pc' = "fetch"
            /\ UNCHANGED <<data, rawPlaces, uniquePlaces, scoredPlaces, places,
                           categoryCounts, idx, res>>
  /\ UNCHANGED <<req, provider, run, firstRes, parked, page>>

\* lines 197-211: the provider answers and its body parses
FetchOk ==
  /\ pc = "fetch"
  /\ provider.ok
  /\ data' = [elements |-> provider.elements]
  /\ pc' = "collect"
  /\ UNCHANGED <<req, provider, centerLat, centerLon, searchRadius, rawPlaces,
                 uniquePlaces, scoredPlaces, places, categoryCounts, idx, res,
                 run, firstRes, parked, page>>

\* FetchFail with a catch block that answers with an empty list of places
FetchFailEmptyList ==
  /\ pc = "fetch"
  /\ ~provider.ok
  /\ res' = [status |-> 200,
             body |-> ResultOf(<<>>, centerLat, centerLon, searchRadius)]
  /\ pc' = "done"
  /\ UNCHANGED <<req, provider, locals, run, firstRes, parked, page>>

\* lines 205-209 and the catch block, lines 305-311
FetchFail ==
  /\ pc = "fetch"
  /\ ~provider.ok
  /\ res' = [status |-> 500, body |-> [error |-> "Failed to fetch places"]]
  /\ pc' = "done"
  /\ UNCHANGED <<req, provider, locals, run, firstRes, parked, page>>

\* lines 212-258: the first pass, and the empty list the second pass starts from
CollectPlaces ==
  /\ pc = "collect"
  /\ rawPlaces' = CollectFrom(data.elements, centerLat, centerLon, searchRadius)
  /\ uniquePlaces' = <<>>
  /\ idx' = 1
  /\ pc' = "dedup"
  /\ UNCHANGED <<req, provider, centerLat, centerLon, searchRadius, data,
                 scoredPlaces, places, categoryCounts, res, run, firstRes, parked, page>>

\* AfterCandidate when the later record wins: the candidate takes the place
\* of the accepted entries it duplicates
AfterCandidateReplacing(unique, place) ==
  IF \E i \in 1..Len(unique) : isDuplicate(place, unique[i])
    THEN [i \in 1..Len(unique) |->
            IF isDuplicate(place, unique[i]) THEN place ELSE unique[i]]
  ELSE Append(unique, place)

\* uniquePlaces after the candidate `place` has been looked at
AfterCandidate(unique, place) ==
  IF \E i \in 1..Len(unique) : isDuplicate(place, unique[i]) THEN unique
  ELSE Append(unique, place)

\* lines 259-266: one iteration of the second pass
DedupStep ==
  /\ pc = "dedup"
  /\ idx <= Len(rawPlaces)
  /\ uniquePlaces' = AfterCandidate(uniquePlaces, rawPlaces[idx])
  /\ idx' = idx + 1
  /\ UNCHANGED <<pc, req, provider, centerLat, centerLon, searchRadius, data,
                 rawPlaces, scoredPlaces, places, categoryCounts, res, run, firstRes, parked, page>>

\* scoredPlaces, scored and sorted
ScoredAndSorted(unique) == SortScored([i \in 1..Len(unique) |-> WithScore(unique[i])])

\* StartCounts when categoryCounts is a module-level object that is never
\* reset: the counts go on from where the previous request left them
StartCountsKept(counts) == counts

\* categoryCounts as the fourth pass starts
StartCounts(counts) == NoCounts

\* lines 269-285: the third pass, and the empty list and zero counts the fourth
\* pass starts from
ScoreAndSort ==
  /\ pc = "dedup"
  /\ idx > Len(rawPlaces)
  /\ scoredPlaces' = ScoredAndSorted(uniquePlaces)
  /\ places' = <<>>
  /\ categoryCounts' = StartCounts(categoryCounts)
  /\ idx' = 1
  /\ pc' = "cap"
  /\ UNCHANGED <<req, provider, centerLat, centerLon, searchRadius, data,
                 rawPlaces, uniquePlaces, res, run, firstRes, parked, page>>

\* UnderLimit with <= for <
UnderLimitInclusive(counts, place) ==
  counts[place.category] <= categoryLimits[place.category]

\* UnderLimit with one budget for all categories: nothing more is accepted
\* once any category is full
UnderLimitShared(counts, place) ==
  \A c \in Categories : counts[c] < categoryLimits[c]

\* categoryCounts[place.category] < categoryLimits[place.category]
UnderLimit(counts, place) == counts[place.category] < categoryLimits[place.category]

\* lines 287-292: one iteration of the fourth pass
CapStep ==
  /\ pc = "cap"
  /\ idx <= Len(scoredPlaces)
  /\ LET place == scoredPlaces[idx]
     IN IF UnderLimit(categoryCounts, place)
          THEN /\ places' = Append(places, place)
               /\ categoryCounts' =
                    [categoryCounts EXCEPT ![place.category] = @ + 1]
          ELSE UNCHANGED <<places, categoryCounts>>
  /\ idx' = idx + 1
  /\ UNCHANGED <<pc, req, provider, centerLat, centerLon, searchRadius, data,
                 rawPlaces, uniquePlaces, scoredPlaces, res, run, firstRes, parked, page>>

\* lines 294-304
Respond ==
  /\ pc = "cap"
  /\ idx > Len(scoredPlaces)
  /\ res' = [status |-> 200,
             body |-> ResultOf(places, centerLat, centerLon, searchRadius)]
  /\ pc' = "done"
  /\ UNCHANGED <<req, provider, locals, run, firstRes, parked, page>>

Next ==
  \/ Validate
  \/ FetchOk
  \/ FetchFail
  \/ CollectPlaces
  \/ DedupStep
  \/ ScoreAndSort
  \/ CapStep
  \/ Respond

Spec == Init /\ [][Next]_vars

\* The same request arrives a second time and the provider answers it as it
\* did the first time: a new invocation of the handler, whose first response
\* is kept for comparison.  The invocation's locals are whatever its own
\* statements assign.
Rerun ==
  /\ pc = "done"
  /\ run = 1
  /\ run' = 2
  /\ firstRes' = res
  /\ res' = NoResponse
  /\ pc' = "start"
  /\ UNCHANGED <<req, provider, locals, parked, page>>

NextRerun == Next \/ Rerun

SpecRerun == Init /\ [][NextRerun]_vars

\* ------------------------------------------------- the passes as a whole
\* lines 258-266: the second pass over all of rawPlaces
RECURSIVE UniqueOf(_)
UniqueOf(raw) ==
  IF raw = <<>> THEN <<>>
  ELSE AfterCandidate(UniqueOf(SubSeq(raw, 1, Len(raw) - 1)), raw[Len(raw)])

\* lines 283-292: the fourth pass over all of scoredPlaces; places and
\* categoryCounts as the loop leaves them
RECURSIVE CappedOf(_)
CappedOf(sorted) ==
  IF sorted = <<>> THEN [places |-> <<>>, categoryCounts |-> NoCounts]
  ELSE LET sofar == CappedOf(SubSeq(sorted, 1, Len(sorted) - 1))
           place == sorted[Len(sorted)]
       IN IF UnderLimit(sofar.categoryCounts, place)
            THEN [places |-> Append(sofar.places, place),
                  categoryCounts |->
                    [sofar.categoryCounts EXCEPT ![place.category] = @ + 1]]
          ELSE sofar

\* lines 212-292: the places the four passes make of data.elements
PlacesOf(els, cLat, cLon, radius) ==
  CappedOf(ScoredAndSorted(UniqueOf(CollectFrom(els, cLat, cLon, radius)))).places

\* ------------------------------------------------------ batches of records
S_ParkClinic == <<"P", "a", "r", "k", " ", "C", "l", "i", "n", "i", "c">>
S_Park == <<"P", "a", "r", "k">>

\* Records for the deduplicator and the four ways a record is skipped:
\* three clinics of one name 40 m apart in a row (200 m, 240 m and 280 m
\* north of the centre), a school "Park" 10 m from the first of them, and a
\* record no rule matches, one without coordinates, one with a blacklisted
\* name and one 2105 m away
BatchPool ==
  {Node(21, 10200, 10000, [name |-> S_ParkClinic, amenity |-> S_clinic]),
   Node(22, 10240, 10000, [name |-> S_ParkClinic, amenity |-> S_clinic,
                           operator |-> S_NHS]),
   Node(23, 10280, 10000, [name |-> S_ParkClinic, amenity |-> S_clinic]),
   Node(24, 10210, 10000, [name |-> S_Park, amenity |-> S_school]),
   Way(7, 10100, 10100, [name |-> S_Cafe, amenity |-> S_cafe]),
   [type |-> "way", id |-> 25, tags |-> [name |-> S_HillSchool, amenity |-> S_school]],
   Node(3, 10300, 10000, [name |-> S_TestClinic, amenity |-> S_clinic]),
   Node(4, 12105, 10000, [name |-> S_FarClinic, amenity |-> S_clinic])}

BatchLists == UNION {[1..n -> BatchPool] : n \in 0..MaxBatch}

BatchWorlds ==
  {[req |-> DefaultRequest, provider |-> Answer(f)] : f \in BatchLists}
  \cup {[req |-> r, provider |-> NoAnswer] : r \in {DefaultRequest} \cup IncompleteRequests}

\* the handler as a request of `worlds` reaches it
InitFrom(worlds) ==
  /\ pc = "start"
  /\ \E w \in worlds : req = w.req /\ provider = w.provider
  /\ centerLat = 0
  /\ centerLon = 0
  /\ searchRadius = 0
  /\ data = [elements |-> <<>>]
  /\ rawPlaces = <<>>
  /\ uniquePlaces = <<>>
  /\ scoredPlaces = <<>>
  /\ places = <<>>
  /\ categoryCounts = NoCounts
  /\ idx = 1
  /\ res = NoResponse
  /\ run = 1
  /\ firstRes = NoResponse
  /\ parked = NoFrame
  /\ PageLoaded

InitBatch == InitFrom(BatchWorlds)

SpecBatch == InitBatch /\ [][Next]_vars

\* ------------------------------------------------------ query parameters
\* lat and lon: not in the URL, empty, not a number, a number
CoordinateTexts == {Undefined, <<>>, Q_abc, Q_10000}

RadiusTexts == {Undefined, Q_abc, Q_1000}

Requests ==
  [lat : CoordinateTexts, lon : CoordinateTexts, radius : RadiusTexts]

\* the handler can compute with the parameters of the request
Computable(r) ==
  /\ Truthy(r.lat) /\ ParseNumber(r.lat) # NaN
  /\ Truthy(r.lon) /\ ParseNumber(r.lon) # NaN
  /\ r.radius = Undefined \/ ParseNumber(r.radius) # NaN

\* the ways the fetch fails: a status that is not OK (lines 205-209), fetch
\* throws, response.json() throws on a body that is not JSON
FailedAnswers == {[ok |-> FALSE, failure |-> f] : f \in {"status", "network", "parse"}}

\* The provider rejects a query built with NaN (`around:NaN,...` is not Overpass
\* QL), so a request that is not computable is paired with a failed fetch when
\* it gets as far as the fetch; one without lat or lon is answered whatever the
\* provider would say.
RequestWorlds ==
  {[req |-> r, provider |-> a] : r \in Requests, a \in FailedAnswers}
  \cup {[req |-> r, provider |-> Answer(f)] :
          r \in {q \in Requests : Computable(q)}, f \in FreeLists}
  \cup {[req |-> r, provider |-> Answer(f)] :
          r \in {q \in Requests : ~Truthy(q.lat) \/ ~Truthy(q.lon)}, f \in ShortLists}

InitReq == InitFrom(RequestWorlds)

SpecReq == InitReq /\ [][Next]_vars

\* ------------------------------------------------------- single records
S_residential == <<"r", "e", "s", "i", "d", "e", "n", "t", "i", "a", "l">>
S_platform == <<"p", "l", "a", "t", "f", "o", "r", "m">>
S_halt == <<"h", "a", "l", "t">>
S_no == <<"n", "o">>
S_Hospital == <<"H", "o", "s", "p", "i", "t", "a", "l">>
S_BusStop == <<"B", "u", "s", " ", "S", "t", "o", "p">>

\* the tag mapping with the keys of `choice` whose value is not Undefined
Present(choice) ==
  [k \in {key \in DOMAIN choice : choice[key] # Undefined} |-> choice[k]]

\* tag mappings for the classifier: every key absent, empty, with the value a
\* rule names, or with another value
TagChoices ==
  [name : {S_HillSchool},
   amenity : {Undefined, S_hospital, S_bus_station, S_school, S_cafe},
   healthcare : {Undefined, <<>>, S_yes},
   highway : {Undefined, S_bus_stop, S_residential},
   public_transport : {Undefined, <<>>, S_platform},
   railway : {Undefined, S_station, S_halt}]

TagElements == {Node(31, 10700, 10000, Present(c)) : c \in TagChoices}

\* tag mappings for the scorer
ScoreChoices ==
  [name : {Undefined, S_StThomas, S_Hospital, S_BusStop},
   operator : {Undefined, <<>>, S_NHS},
   emergency : {Undefined, S_yes, S_no},
   amenity : {Undefined, S_hospital, S_doctors, S_school, S_college},
   highway : {Undefined, S_bus_stop},
   healthcare : {Undefined, S_yes}]

ScoreElements == {Node(32, 10700, 10000, Present(c)) : c \in ScoreChoices}

\* a search centre 707 m from the point (0, 0)
Q_500 == <<"5", "0", "0">>

EquatorRequest == [lat |-> Q_500, lon |-> Q_500, radius |-> Undefined]

\* records with each of lat, lon and center absent or present, the latitude and
\* the longitude 0 or 300, the center at (700, 700)
CoordChoices ==
  [lat : {<<>>, <<0>>, <<300>>},
   lon : {<<>>, <<0>>, <<300>>},
   center : {<<>>, <<[lat |-> 700, lon |-> 700]>>}]

CoordElement(c) ==
  LET keys == {"type", "id", "tags"}
              \cup (IF c.lat # <<>> THEN {"lat"} ELSE {})
              \cup (IF c.lon # <<>> THEN {"lon"} ELSE {})
              \cup (IF c.center # <<>> THEN {"center"} ELSE {})
  IN [k \in keys |->
        CASE k = "type" -> IF c.center # <<>> THEN "way" ELSE "node"
          [] k = "id" -> 33
          [] k = "tags" -> [name |-> S_HillSchool, amenity |-> S_school]
          [] k = "lat" -> c.lat[1]
          [] k = "lon" -> c.lon[1]
          [] k = "center" -> c.center[1]]

CoordElements == {CoordElement(c) : c \in CoordChoices}

\* a character outside ASCII is written by its name: these are letters that
\* \w does not match
NonAsciiLetter == {"cyrillic sha", "cyrillic ka", "cyrillic o", "cyrillic el",
                  "cyrillic a", "e acute"}

S_Shkola == <<"cyrillic sha", "cyrillic ka", "cyrillic o", "cyrillic el", "cyrillic a">>
S_Cafe_acute == <<"C", "a", "f", "e acute">>

\* a name of n characters
LongName(n) == [i \in 1..n |-> IF i = 1 THEN "A" ELSE "a"]

\* names for the validator
Names ==
  {LongName(1), LongName(2), LongName(100), LongName(101),
   S_site, <<"S", "i", "t", "e">>, <<" ", "S", "i", "t", "e", " ">>,
   <<"S", "i", "t", "e", " ", "A">>, <<"B", "u", "i", "l", "d", "i", "n", "g">>,
   S_TestClinic, <<"C", "o", "n", "t", "e", "s", "t">>,
   S_123, <<"4", "5">>, <<"-", "-">>, <<"_", "_">>, <<"2", "4", "/", "7">>,
   <<"A", "1">>, <<" ", "a">>, <<"7", " ", "E", "l", "e", "v", "e", "n">>,
   S_Shkola, S_Cafe_acute, S_Unknown, S_StThomasApos}

NameElements ==
  {Node(34, 10700, 10000, [name |-> n, amenity |-> S_clinic]) : n \in Names}

\* one record, or two records for the scorer, in answer to a request
OneWorlds ==
  {[req |-> DefaultRequest, provider |-> Answer(<<e>>)] :
     e \in TagElements \cup ScoreElements \cup NameElements}
  \cup {[req |-> EquatorRequest, provider |-> Answer(<<e>>)] : e \in CoordElements}
  \cup {[req |-> DefaultRequest, provider |-> Answer(<<e, f>>)] :
          e \in NameElements, f \in {g \in ScoreElements : "name" \notin DOMAIN g.tags}}
  \cup {[req |-> r, provider |-> NoAnswer] :
          r \in {DefaultRequest, EquatorRequest} \cup IncompleteRequests}

InitOne == InitFrom(OneWorlds)

SpecOne == InitOne /\ [][Next]_vars

\* ------------------------------------------------- two invocations at once
\* The handler is an async function on one thread: an invocation runs until
\* it awaits (the fetch, then the body of the response) or returns, and only
\* then can the other invocation run.  Every variable of the handler is a
\* const or let of the invocation; the module has no variable of its own.

\* this invocation, as it is set aside
Frame ==
  [pc |-> pc, req |-> req, provider |-> provider, centerLat |-> centerLat,
   centerLon |-> centerLon, searchRadius |-> searchRadius, data |-> data,
   rawPlaces |-> rawPlaces, uniquePlaces |-> uniquePlaces,
   scoredPlaces |-> scoredPlaces, places |-> places,
   categoryCounts |-> categoryCounts, idx |-> idx, res |-> res]

\* an invocation for the request of world w that has not run yet
StartFrame(w) ==
  [pc |-> "start", req |-> w.req, provider |-> w.provider, centerLat |-> 0,
   centerLon |-> 0, searchRadius |-> 0, data |-> [elements |-> <<>>],
   rawPlaces |-> <<>>, uniquePlaces |-> <<>>, scoredPlaces |-> <<>>,
   places |-> <<>>, categoryCounts |-> NoCounts, idx |-> 1, res |-> NoResponse]

\* Switch when centerLat, centerLon and searchRadius are variables of the
\* module that both invocations assign
SwitchSharingParameters ==
  /\ pc \in {"start", "fetch", "done"}
  /\ parked.pc # "none"
  /\ parked' = Frame
  /\ pc' = parked.pc
  /\ req' = parked.req
  /\ provider' = parked.provider
  /\ data' = parked.data
  /\ rawPlaces' = parked.rawPlaces
  /\ uniquePlaces' = parked.uniquePlaces
  /\ scoredPlaces' = parked.scoredPlaces
  /\ places' = parked.places
  /\ categoryCounts' = parked.categoryCounts
  /\ idx' = parked.idx
  /\ res' = parked.res
  /\ UNCHANGED <<centerLat, centerLon, searchRadius, run, firstRes, page>>

\* lines 197, 206, 211 and the return: the running invocation awaits or has
\* returned, and the other one runs
Switch ==
  /\ pc \in {"start", "fetch", "done"}
  /\ parked.pc # "none"
  /\ parked' = Frame
  /\ pc' = parked.pc
  /\ req' = parked.req
  /\ provider' = parked.provider
  /\ centerLat' = parked.centerLat
  /\ centerLon' = parked.centerLon
  /\ searchRadius' = parked.searchRadius
  /\ data' = parked.data
  /\ rawPlaces' = parked.rawPlaces
  /\ uniquePlaces' = parked.uniquePlaces
  /\ scoredPlaces' = parked.scoredPlaces
  /\ places' = parked.places
  /\ categoryCounts' = parked.categoryCounts
  /\ idx' = parked.idx
  /\ res' = parked.res
  /\ UNCHANGED <<run, firstRes, page>>

\* the response of the handler to request r when the provider answers a
HandlerResponse(r, a) ==
  IF ~Truthy(r.lat) \/ ~Truthy(r.lon)
    THEN [status |-> 400, body |-> [error |-> "Latitude and longitude are required"]]
  ELSE IF ~a.ok
    THEN [status |-> 500, body |-> [error |-> "Failed to fetch places"]]
  ELSE LET cLat == ParseNumber(r.lat)
           cLon == ParseNumber(r.lon)
           radius == IF r.radius = Undefined THEN 2000 ELSE ParseNumber(r.radius)
       IN [status |-> 200,
           body |-> ResultOf(PlacesOf(a.elements, cLat, cLon, radius),
                             cLat, cLon, radius)]

\* lists of the records at 500 m, 510 m (a near-duplicate of the first) and
\* 2100 m
ConcLists ==
  LET near == Node(1, 10500, 10000, [name |-> S_StThomasApos, amenity |-> S_hospital,
                                     emergency |-> S_yes, operator |-> S_NHS])
      twin == Node(2, 10510, 10000, [name |-> S_StThomas, amenity |-> S_hospital])
      edge == Node(5, 12100, 10000, [name |-> S_EdgeSchool, amenity |-> S_school])
  IN {<<>>, <<near>>, <<edge>>, <<twin, near>>, <<near, edge>>}

ConcWorlds ==
  {[req |-> r, provider |-> Answer(f)] :
     r \in {DefaultRequest, NarrowRequest}, f \in ConcLists}
  \cup {[req |-> r, provider |-> NoAnswer] :
          r \in {DefaultRequest} \cup IncompleteRequests}

InitConc ==
  /\ pc = "start"
  /\ \E w \in ConcWorlds : req = w.req /\ provider = w.provider
  /\ centerLat = 0
  /\ centerLon = 0
  /\ searchRadius = 0
  /\ data = [elements |-> <<>>]
  /\ rawPlaces = <<>>
  /\ uniquePlaces = <<>>
  /\ scoredPlaces = <<>>
  /\ places = <<>>
  /\ categoryCounts = NoCounts
  /\ idx = 1
  /\ res = NoResponse
  /\ run = 1
  /\ firstRes = NoResponse
  /\ \E w \in ConcWorlds : parked = StartFrame(w)
  /\ PageLoaded

NextConc == Next \/ Switch

SpecConc == InitConc /\ [][NextConc]_vars

\* ------------------------------------------------------------- the client
\* The page runs on one thread.  A step is what runs between two awaits of
\* fetchPlaces, or a handler of the page with the part of fetchPlaces before
\* its first await.  A call of fetchPlaces is a record: the search it belongs
\* to, its retryCount, where it is ("fetch": awaiting fetch; "json": awaiting
\* response.json(); "invalid", "aborted", "failed", "shown": returned), and
\* whether its AbortController has been aborted.  A search stands for its
\* centre and radius.

\* data.places of the response to the request of a search
ResponsePlaces(search) == <<search>>

\* the fetch of a call has been aborted and its catch block has not run yet:
\* the rejection is a microtask, it runs before any other event
Rejecting == \E i \in 1..Len(calls) : calls[i].at = "fetch" /\ calls[i].aborted

\* ShouldRetry with one more retry
ShouldRetryOnceMore(retryCount) == retryCount < 3

\* line 109
ShouldRetry(retryCount) == retryCount < 2

\* line 116
RetryDelay(retryCount) == 1000 * (retryCount + 1)

\* Finally without its setIsLoading(false)
FinallySkipped(loading) == loading

\* lines 138-140: isLoading after the finally block
Finally(loading) == FALSE

\* lines 99 and 108-137: the catch block for an error that is no AbortError,
\* `pending` being the timers before it
Caught(search, retryCount, valid, pending) ==
  /\ currentFetchRef' = 0
  /\ IF ShouldRetry(retryCount)
       THEN /\ timers' = pending \cup {[search |-> search, retryCount |-> retryCount + 1,
                                        valid |-> valid, delay |-> RetryDelay(retryCount)]}
            /\ lastToast' = "info"
            /\ UNCHANGED shownPlaces
       ELSE /\ lastToast' = "error"
            /\ shownPlaces' = <<>>
            /\ timers' = pending

\* lines 39-80: fetchPlaces up to its first await; parameters that are not
\* valid throw at line 61, and the catch and finally blocks run at once
Begin(search, retryCount, valid, pending) ==
  LET told == IF currentFetchRef # 0
                THEN [calls EXCEPT ![currentFetchRef].aborted = TRUE]
              ELSE calls
  IN IF valid
       THEN /\ calls' = Append(told, [search |-> search, retryCount |-> retryCount,
                                      at |-> "fetch", aborted |-> FALSE])
            /\ currentFetchRef' = Len(calls) + 1
            /\ isLoading' = TRUE
            /\ timers' = pending
            /\ UNCHANGED <<shownPlaces, lastToast>>
     ELSE /\ calls' = Append(told, [search |-> search, retryCount |-> retryCount,
                                    at |-> "invalid", aborted |-> FALSE])
          /\ Caught(search, retryCount, valid, pending)
          /\ isLoading' = Finally(TRUE)

\* lines 157-180: a click on the map, whose coordinates the handler validates
MapClick ==
  /\ ~Rejecting
  /\ started < MaxSearches
  /\ started' = started + 1
  /\ Begin(started + 1, 0, TRUE, timers)
  /\ UNCHANGED <<hasSearched, handler>>

\* lines 183-192 and 220-232: the position of the user, passed on as it is; a
\* latitude or longitude of 0 is not valid for fetchPlaces (lines 53-62)
LocationFound ==
  /\ ~Rejecting
  /\ started < MaxSearches
  /\ started' = started + 1
  /\ \E valid \in BOOLEAN : Begin(started + 1, 0, valid, timers)
  /\ UNCHANGED <<hasSearched, handler>>

\* lines 195-210: the radius control and the refresh button, which are
\* disabled while isLoading (part_004 lines 59 and 68, part_005 line 317)
RadiusChangeOrRefresh ==
  /\ ~Rejecting
  /\ hasSearched /\ ~isLoading
  /\ started < MaxSearches
  /\ started' = started + 1
  /\ Begin(started + 1, 0, TRUE, timers)
  /\ UNCHANGED <<hasSearched, handler>>

\* lines 112-117: the timer of a retry fires
RetryFires ==
  /\ ~Rejecting
  /\ \E t \in timers : Begin(t.search, t.retryCount, t.valid, timers \ {t})
  /\ UNCHANGED <<hasSearched, started, handler>>

\* line 67: the 15 s timer of a call that still awaits its fetch fires
Timeout ==
  /\ ~Rejecting
  /\ \E i \in 1..Len(calls) :
       /\ calls[i].at = "fetch"
       /\ calls' = [calls EXCEPT ![i].aborted = TRUE]
  /\ UNCHANGED <<shownPlaces, isLoading, hasSearched, currentFetchRef, timers,
                 started, lastToast, handler>>

\* lines 98-106 and 138-140: the aborted fetch rejects with an AbortError
AbortSettles ==
  /\ \E i \in 1..Len(calls) :
       /\ calls[i].at = "fetch" /\ calls[i].aborted
       /\ calls' = [calls EXCEPT ![i].at = "aborted"]
  /\ currentFetchRef' = 0
  /\ isLoading' = Finally(isLoading)
  /\ UNCHANGED <<shownPlaces, hasSearched, timers, started, lastToast, handler>>

\* the call i fails with an error that is no AbortError
Fail(i) ==
  /\ calls' = [calls EXCEPT ![i].at = "failed"]
  /\ Caught(calls[i].search, calls[i].retryCount, TRUE, timers)
  /\ isLoading' = Finally(isLoading)
  /\ UNCHANGED <<hasSearched, started, handler>>

\* lines 72-86: the fetch resolves; a response that is not OK throws
FetchResolves ==
  /\ ~Rejecting
  /\ \E i \in 1..Len(calls) :
       /\ calls[i].at = "fetch"
       /\ \E ok \in BOOLEAN :
            IF ok
              THEN /\ calls' = [calls EXCEPT ![i].at = "json"]
                   /\ currentFetchRef' = 0
                   /\ UNCHANGED <<shownPlaces, isLoading, hasSearched, timers,
                                  started, lastToast, handler>>
            ELSE Fail(i)

\* line 72: the fetch rejects with a network error
FetchRejects ==
  /\ ~Rejecting
  /\ \E i \in 1..Len(calls) : calls[i].at = "fetch" /\ Fail(i)

\* lines 88-97 and 138-140: the body of the response is parsed
JsonResolves ==
  /\ ~Rejecting
  /\ \E i \in 1..Len(calls) :
       /\ calls[i].at = "json"
       /\ calls' = [calls EXCEPT ![i].at = "shown"]
       /\ shownPlaces' = ResponsePlaces(calls[i].search)
  /\ hasSearched' = TRUE
  /\ lastToast' = "success"
  /\ isLoading' = Finally(isLoading)
  /\ UNCHANGED <<currentFetchRef, timers, started, handler>>

\* line 88: the body of the response is not JSON
JsonRejects ==
  /\ ~Rejecting
  /\ \E i \in 1..Len(calls) : calls[i].at = "json" /\ Fail(i)

InitClient == InitFrom({[req |-> DefaultRequest, provider |-> NoAnswer]})

\* what the page does when the user does nothing
Settle ==
  \/ RetryFires
  \/ Timeout
  \/ AbortSettles
  \/ FetchResolves
  \/ FetchRejects
  \/ JsonResolves
  \/ JsonRejects

NextClient ==
  \/ MapClick
  \/ LocationFound
  \/ RadiusChangeOrRefresh
  \/ Settle

SpecClient == InitClient /\ [][NextClient]_vars

\* every fetch settles and every timer fires
SpecClientFair == SpecClient /\ WF_vars(Settle)

\* ================================================================= claims
\* the places of the success response, <<>> when there is none
OutPlaces == IF res.status = 200 THEN res.body.places ELSE <<>>

\* the handler has answered this request with a list of places
Answered == pc = "done" /\ res.status = 200

\* the provider's element with Overpass type t and id n is in the answer
Returned(t, n) ==
  \E i \in 1..Len(data.elements) : data.elements[i].type = t /\ data.elements[i].id = n

\* the place made from the element with Overpass type t and id n is in s
Holds(s, t, n) == \E i \in 1..Len(s) : s[i].id = <<t, n>>

\* how many places of category c the sequence s holds
CountOf(s, c) == Cardinality({i \in 1..Len(s) : s[i].category = c})

\* C1: every Place of the output, and every Place accepted so far by the
\* ranker, lies within radius + 100 metres of the search centre, both by its
\* rounded distance field and by its coordinates.
C1_RadiusBound ==
  \A s \in {places, OutPlaces} : \A i \in 1..Len(s) :
    /\ s[i].distance <= searchRadius + 100
    /\ calculateDistanceSq(centerLat, centerLon, s[i].lat, s[i].lon)
         <= (searchRadius + 100) * (searchRadius + 100)

\* a run with radius 2000 whose input holds the record at 2105 m and the one
\* at exactly 2100 m: the latter is in the output with distance 2100
C1_Witness ==
  /\ Answered
  /\ searchRadius = 2000
  /\ Returned("node", 4)
  /\ \E i \in 1..Len(OutPlaces) :
       OutPlaces[i].id = <<"node", 5>> /\ OutPlaces[i].distance = 2100
  /\ ~Holds(OutPlaces, "node", 4)

\* C2: at every step of the fourth pass and in the response, no category
\* holds more Places than its limit, and there are at most 30 Places.
C2_CapRespected ==
  \A s \in {places, OutPlaces} :
    /\ \A c \in Categories : CountOf(s, c) <= categoryLimits[c]
    /\ Len(s) <= 30

\* the fourth pass is about to skip a place whose category is full
C2_Witness ==
  /\ pc = "cap"
  /\ idx <= Len(scoredPlaces)
  /\ CountOf(places, scoredPlaces[idx].category)
       = categoryLimits[scoredPlaces[idx].category]

\* the near-duplicate relation as section 4.5 words it
NearDuplicate(p, q) ==
  /\ \/ ToLowerCase(p.name) = ToLowerCase(q.name)
     \/ Includes(StripPunctuation(ToLowerCase(p.name)),
                 StripPunctuation(ToLowerCase(q.name)))
     \/ Includes(StripPunctuation(ToLowerCase(q.name)),
                 StripPunctuation(ToLowerCase(p.name)))
  /\ calculateDistanceSq(p.lat, p.lon, q.lat, q.lon) < 50 * 50

\* C3: no two distinct Places of the output are near-duplicates of each
\* other.
C3_NoResidualDuplicates ==
  \A i, j \in 1..Len(OutPlaces) :
    i < j => ~NearDuplicate(OutPlaces[i], OutPlaces[j])

\* the two records 10 m apart whose names differ by an apostrophe were both
\* returned, and exactly one of them is in the output
C3_Witness ==
  /\ Answered
  /\ Returned("node", 1)
  /\ Returned("node", 2)
  /\ Holds(OutPlaces, "node", 1) # Holds(OutPlaces, "node", 2)

\* p goes before q: higher score, or equal score and no greater distance
RanksBeforeOrEqual(p, q) ==
  \/ scorePlaceQuality(p) > scorePlaceQuality(q)
  \/ scorePlaceQuality(p) = scorePlaceQuality(q) /\ p.distance <= q.distance

\* C4: the output, and the list the ranker is filling, is ordered by score
\* descending and, within a score, by distance ascending.
C4_RankOrder ==
  \A s \in {places, OutPlaces} : \A i \in 1..(Len(s) - 1) :
    RanksBeforeOrEqual(s[i], s[i + 1])

\* an output in which a score changes and in which two neighbours of equal
\* score differ in distance, from an input that had the farther one first
C4_Witness ==
  /\ Answered
  /\ \E i \in 1..(Len(OutPlaces) - 1) :
       scorePlaceQuality(OutPlaces[i]) > scorePlaceQuality(OutPlaces[i + 1])
  /\ \E i \in 1..(Len(OutPlaces) - 1) :
       /\ scorePlaceQuality(OutPlaces[i]) = scorePlaceQuality(OutPlaces[i + 1])
       /\ OutPlaces[i].distance < OutPlaces[i + 1].distance
       /\ \E a, b \in 1..Len(rawPlaces) :
            /\ a < b
            /\ rawPlaces[a].id = OutPlaces[i + 1].id
            /\ rawPlaces[b].id = OutPlaces[i].id

\* a place without the score the third pass attaches to it
Bare(p) == [k \in DOMAIN p \ {"qualityScore"} |-> p[k]]

\* the positions of uniquePlaces that hold a place of category c
SurvivorsOf(c) == {i \in 1..Len(uniquePlaces) : uniquePlaces[i].category = c}

\* the output restricted to category c
OutOf(c) == SelectSeq(OutPlaces, LAMBDA p : p.category = c)

\* u ranks strictly better than o
RanksStrictlyBefore(u, o) ==
  \/ scorePlaceQuality(u) > scorePlaceQuality(o)
  \/ scorePlaceQuality(u) = scorePlaceQuality(o) /\ u.distance < o.distance

Min(a, b) == IF a <= b THEN a ELSE b

\* C5: per category c, the output holds min(|S_c|, cap(c)) of the survivors
\* S_c of deduplication, every one of them a survivor, none of the survivors
\* left out ranks strictly better than one let in, and they are the head of
\* S_c in sorted order; a full category takes nothing from the others.
C5_CapSelection ==
  Answered =>
    \A c \in Categories :
      LET out == OutOf(c)
          sorted == SelectSeq(SortScored([i \in 1..Len(uniquePlaces) |->
                                            WithScore(uniquePlaces[i])]),
                              LAMBDA p : p.category = c)
      IN /\ Len(out) = Min(Cardinality(SurvivorsOf(c)), categoryLimits[c])
         /\ \A i \in 1..Len(out) : \E u \in SurvivorsOf(c) : uniquePlaces[u] = Bare(out[i])
         /\ \A u \in SurvivorsOf(c) :
              (\A i \in 1..Len(out) : uniquePlaces[u] # Bare(out[i]))
                => \A i \in 1..Len(out) : ~RanksStrictlyBefore(uniquePlaces[u], out[i])
         /\ out = SubSeq(sorted, 1, Len(out))

\* education is over its limit with eight in the output, and a transport
\* place that ranks behind all of them is in the output all the same
C5_Witness ==
  /\ Answered
  /\ Cardinality(SurvivorsOf("education")) > categoryLimits["education"]
  /\ Len(OutOf("education")) = categoryLimits["education"]
  /\ Len(OutPlaces) > categoryLimits["education"]
  /\ OutPlaces[Len(OutPlaces)].category = "transport"

\* some rule of section 4.2 matches the tag mapping
MatchesSomeRule(tags) ==
  \/ Prop(tags, "amenity") \in {S_hospital, S_clinic, S_doctors, S_pharmacy}
  \/ "healthcare" \in DOMAIN tags
  \/ Prop(tags, "amenity") = S_bus_station
  \/ Prop(tags, "highway") = S_bus_stop
  \/ "public_transport" \in DOMAIN tags
  \/ Prop(tags, "railway") = S_station
  \/ Prop(tags, "amenity") \in {S_school, S_university, S_college, S_kindergarten}

\* C6: every Place of every stage has one of the three categories, and an
\* element no rule matches has no Place in any stage: not among the
\* candidates of deduplication, not among the scored, not in the output.
C6_CategoryClosure ==
  \A s \in {rawPlaces, uniquePlaces, scoredPlaces, places, OutPlaces} :
    /\ \A i \in 1..Len(s) : s[i].category \in Categories
    /\ \A k \in 1..Len(data.elements) :
         ~MatchesSomeRule(TagsOf(data.elements[k]))
           => ~Holds(s, data.elements[k].type, data.elements[k].id)

\* the element no rule matches was returned next to one that is in the output
C6_Witness ==
  /\ Answered
  /\ Returned("way", 7)
  /\ Len(OutPlaces) >= 1
  /\ ~Holds(OutPlaces, "way", 7)

\* the blacklist of section 4.4
Blacklist ==
  {S_test, S_example, S_xxx, S_temp, S_123, S_unnamed, S_no_name,
   S_construction, S_under_construction, S_closed, S_demolished}

\* the name holds a blacklisted substring, whatever the case of its letters
Blacklisted(name) == \E b \in Blacklist : Includes(ToLowerCase(name), b)

\* C8: no Place of the output has a name that holds a blacklisted substring.
C8_BlacklistExcluded ==
  \A i \in 1..Len(OutPlaces) : ~Blacklisted(OutPlaces[i].name)

\* "Test Clinic 123", a clinic 300 m from the centre, was returned next to a
\* record that is in the output, and is not in the output itself
C8_Witness ==
  /\ Answered
  /\ \E k \in 1..Len(data.elements) :
       /\ data.elements[k].id = 3
       /\ Blacklisted(ResolveName(data.elements[k]))
       /\ categorizePlace(TagsOf(data.elements[k])) = "healthcare"
  /\ Len(OutPlaces) >= 1
  /\ ~Holds(OutPlaces, "node", 3)

NameTagsMissing(element) ==
  \A k \in {"name", "operator", "brand", "amenity"} : ~Truthy(Prop(TagsOf(element), k))

\* the element is classifiable and has coordinates within radius + 100 metres
ClassifiableInRadius(element) ==
  /\ categorizePlace(TagsOf(element)) # Null
  /\ ~Falsy(CoordOf(element, "lat"))
  /\ ~Falsy(CoordOf(element, "lon"))
  /\ ~OutsideRadius(calculateDistanceSq(centerLat, centerLon,
                                        CoordOf(element, "lat")[1],
                                        CoordOf(element, "lon")[1]), searchRadius)

\* C9 as stated: a classifiable, in-radius record that carries none of the
\* name, operator, brand and amenity tags never appears in the output.
C9_UnnamedDropped ==
  \A k \in 1..Len(data.elements) :
    (NameTagsMissing(data.elements[k]) /\ ClassifiableInRadius(data.elements[k]))
      => ~Holds(OutPlaces, data.elements[k].type, data.elements[k].id)

\* C9 as amended: once the first pass has run, every classifiable, in-radius
\* record that carries none of the four tags is on rawPlaces, under the
\* name "Unknown": the Name Validator lets it through.
C9_UnnamedKeptAsUnknown ==
  pc \in {"dedup", "cap", "done"} /\ res.status \in {0, 200} =>
    \A k \in 1..Len(data.elements) :
      (NameTagsMissing(data.elements[k]) /\ ClassifiableInRadius(data.elements[k]))
        => \E i \in 1..Len(rawPlaces) :
             /\ rawPlaces[i].id = <<data.elements[k].type, data.elements[k].id>>
             /\ rawPlaces[i].name = S_Unknown

\* the bus stop without any name tag is in the output, named "Unknown"
C9_Witness ==
  /\ Answered
  /\ \E k \in 1..Len(data.elements) :
       /\ NameTagsMissing(data.elements[k])
       /\ ClassifiableInRadius(data.elements[k])
       /\ \E i \in 1..Len(OutPlaces) :
            /\ OutPlaces[i].id = <<data.elements[k].type, data.elements[k].id>>
            /\ OutPlaces[i].name = S_Unknown

\* the fields of Place (src/shared/places.ts)
PlaceFields == {"id", "name", "category", "lat", "lon", "distance", "details"}

\* C10: every Place of the response carries the fields of Place and no
\* other; in particular no quality score.
C10_NoScoreInOutput ==
  \A i \in 1..Len(OutPlaces) : DOMAIN OutPlaces[i] = PlaceFields

\* the first pass skips the element: no rule matches it, it lacks
\* coordinates, its name is invalid, or it lies beyond radius + 100 metres
PerRecordFailure(element) ==
  \/ categorizePlace(TagsOf(element)) = Null
  \/ Falsy(CoordOf(element, "lat")) \/ Falsy(CoordOf(element, "lon"))
  \/ ~cleanPlaceName(ResolveName(element))
  \/ OutsideRadius(calculateDistanceSq(centerLat, centerLon,
                                       CoordOf(element, "lat")[1],
                                       CoordOf(element, "lon")[1]), searchRadius)

\* the provider's list without the elements the first pass skips
WithoutFailures == SelectSeq(data.elements, LAMBDA e : ~PerRecordFailure(e))

\* the handler is at a step it can take: a pass is at an element of its list
\* or just past the last one
CanStep ==
  /\ pc \in {"start", "fetch", "collect", "dedup", "cap"}
  /\ pc = "dedup" => idx \in 1..(Len(rawPlaces) + 1)
  /\ pc = "cap" => idx \in 1..(Len(scoredPlaces) + 1)

\* C11: the response is the one the handler gives for the list without the
\* records that fail, and a run whose request is complete and whose fetch
\* succeeds never stops short of a response and ends in a success response.
C11_SilentExclusion ==
  /\ Answered =>
       res.body = ResultOf(PlacesOf(WithoutFailures, centerLat, centerLon, searchRadius),
                           centerLat, centerLon, searchRadius)
  /\ (pc = "done" /\ provider.ok /\ Truthy(req.lat) /\ Truthy(req.lon)) => res.status = 200
  /\ pc # "done" => CanStep

\* a response with a place in it, for a list that held a failing record
\* before a valid one and another failing record after it
C11_Witness ==
  /\ Answered
  /\ Len(OutPlaces) >= 1
  /\ Len(data.elements) = 3
  /\ PerRecordFailure(data.elements[1])
  /\ ~PerRecordFailure(data.elements[2])
  /\ PerRecordFailure(data.elements[3])
  /\ data.elements[1] # data.elements[3]

\* a parameter is in the URL and its text is not a number's
NonNumeric(text) ==
  text # Undefined /\ (text = <<>> \/ \E i \in 1..Len(text) : text[i] \notin Digit)

\* lat or lon is missing, or lat, lon or radius is not numeric
InvalidParams ==
  \/ ~Truthy(req.lat) \/ ~Truthy(req.lon)
  \/ NonNumeric(req.lat) \/ NonNumeric(req.lon) \/ NonNumeric(req.radius)

\* C12: a request whose lat or lon is missing, or whose lat, lon or radius is
\* not numeric, is answered with an error response straight from the start of
\* the handler: the fetch is never issued and no pass runs.
C12_ParamsValidatedFirst ==
  InvalidParams =>
    /\ pc \in {"start", "done"}
    /\ pc = "done" => res.status >= 400
    /\ data.elements = <<>> /\ rawPlaces = <<>>

\* C13: a request that passes the parameter test and whose fetch fails is
\* answered with status 500 and the error "Failed to fetch places", without a
\* list of places; the parameter error is status 400 with another text, and is
\* given only for a missing lat or lon.
C13_FetchFailureSurfaced ==
  pc = "done" =>
    /\ (Truthy(req.lat) /\ Truthy(req.lon) /\ ~provider.ok) =>
         /\ res.status = 500
         /\ res.body.error = "Failed to fetch places"
         /\ "places" \notin DOMAIN res.body
    /\ res.status = 400 =>
         /\ ~Truthy(req.lat) \/ ~Truthy(req.lon)
         /\ res.body.error # "Failed to fetch places"
    /\ res.status = 200 => provider.ok

\* a fetch whose body is not JSON has been answered with status 500
C13_Witness ==
  /\ pc = "done" /\ res.status = 500
  /\ provider.failure = "parse"
  /\ Computable(req)

\* C14: under every interleaving of two invocations at their await points,
\* the response of each is the response the handler gives to its request when
\* it runs alone.
C14_NoInterference ==
  /\ pc = "done" => res = HandlerResponse(req, provider)
  /\ parked.pc = "done" => parked.res = HandlerResponse(parked.req, parked.provider)

\* both invocations have answered, each with places, for different radii and
\* different lists
C14_Witness ==
  /\ pc = "done" /\ parked.pc = "done"
  /\ res.status = 200 /\ parked.res.status = 200
  /\ req.radius # parked.req.radius
  /\ provider # parked.provider
  /\ Len(res.body.places) >= 1 /\ Len(parked.res.body.places) >= 1

\* the first pass is over
Collected == pc \in {"dedup", "cap", "done"} /\ data.elements # <<>>

\* the candidates the first pass has made of the element
CandidatesOf(element) ==
  {rawPlaces[j] : j \in {k \in 1..Len(rawPlaces) :
                           rawPlaces[k].id = <<element.type, element.id>>}}

\* the element has coordinates, a valid name and lies within radius + 100
PassesOtherTests(element) ==
  /\ ~Falsy(CoordOf(element, "lat")) /\ ~Falsy(CoordOf(element, "lon"))
  /\ cleanPlaceName(ResolveName(element))
  /\ ~OutsideRadius(calculateDistanceSq(centerLat, centerLon,
                                        CoordOf(element, "lat")[1],
                                        CoordOf(element, "lon")[1]), searchRadius)

\* rule n of the classifier matches the tag mapping (a tag is present when
\* its key is in the mapping)
RuleMatches(n, tags) ==
  CASE n = 1 -> "amenity" \in DOMAIN tags
                /\ tags.amenity \in {S_hospital, S_clinic, S_doctors, S_pharmacy}
    [] n = 2 -> "healthcare" \in DOMAIN tags
    [] n = 3 -> "amenity" \in DOMAIN tags /\ tags.amenity = S_bus_station
    [] n = 4 -> \/ "highway" \in DOMAIN tags /\ tags.highway = S_bus_stop
                \/ "public_transport" \in DOMAIN tags
    [] n = 5 -> "railway" \in DOMAIN tags /\ tags.railway = S_station
    [] n = 6 -> "amenity" \in DOMAIN tags
                /\ tags.amenity \in {S_school, S_university, S_college, S_kindergarten}

RuleCategory(n) ==
  CASE n \in {1, 2} -> "healthcare" [] n \in {3, 4, 5} -> "transport" [] n = 6 -> "education"

MatchingRules(tags) == {n \in 1..6 : RuleMatches(n, tags)}

\* the lowest number of a set of rule numbers
FirstOf(rules) == CHOOSE n \in rules : \A m \in rules : n <= m

\* every element is classified by the lowest-numbered rule that matches it:
\* with no such rule it is no candidate, otherwise its candidate has that
\* rule's category, and there is one when the other tests let it pass
ClassifiedByFirstRule(elements) ==
  \A i \in elements :
    LET element == data.elements[i]
        matching == MatchingRules(TagsOf(element))
    IN /\ matching = {} => CandidatesOf(element) = {}
       /\ matching # {} =>
            /\ \A place \in CandidatesOf(element) :
                 place.category = RuleCategory(FirstOf(matching))
            /\ PassesOtherTests(element) => CandidatesOf(element) # {}

NonEmptyValues(tags) == \A k \in DOMAIN tags : tags[k] # <<>>

\* C15: for every tag mapping with non-empty values the category is that of
\* the lowest-numbered of the six rules that matches.
C15_FirstMatchWins ==
  Collected =>
    ClassifiedByFirstRule({i \in 1..Len(data.elements) :
                             NonEmptyValues(TagsOf(data.elements[i]))})

\* a school that is also a bus stop, with a railway tag that is no station,
\* is a transport candidate
C15_Witness ==
  /\ Collected
  /\ \E i \in 1..Len(data.elements) :
       LET tags == TagsOf(data.elements[i])
       IN /\ NonEmptyValues(tags)
          /\ MatchingRules(tags) = {4, 6}
          /\ \E place \in CandidatesOf(data.elements[i]) : place.category = "transport"

\* C16: rules 2 and 4 test the presence of the key, whatever its value, the
\* empty string included: every tag mapping is classified by the
\* lowest-numbered rule that matches it when presence is a key of the mapping.
C16_PresenceNotValue ==
  Collected => ClassifiedByFirstRule(1..Len(data.elements))

\* the element has a direct coordinate, a center coordinate
HasDirect(element) == "lat" \in DOMAIN element /\ "lon" \in DOMAIN element

HasCenter(element) ==
  /\ "center" \in DOMAIN element
  /\ "lat" \in DOMAIN element.center /\ "lon" \in DOMAIN element.center

\* the coordinate the Geometry Filter is to use: the direct one when there is
\* one, else the center, <<>> when there is neither
EffectiveCoordinate(element) ==
  IF HasDirect(element) THEN <<[lat |-> element.lat, lon |-> element.lon]>>
  ELSE IF HasCenter(element) THEN <<element.center>>
  ELSE <<>>

\* C17: a classifiable element with a valid name is a candidate at its direct
\* coordinate when it has one, 0 included, at its center coordinate when it has
\* no direct one, whenever that coordinate is within radius + 100; it is no
\* candidate when it has neither.
C17_DirectCoordinateFirst ==
  Collected =>
    \A i \in 1..Len(data.elements) :
      LET element == data.elements[i]
          at == EffectiveCoordinate(element)
      IN (categorizePlace(TagsOf(element)) # Null /\ cleanPlaceName(ResolveName(element))) =>
           IF at = <<>> THEN CandidatesOf(element) = {}
           ELSE /\ \A place \in CandidatesOf(element) :
                     place.lat = at[1].lat /\ place.lon = at[1].lon
                /\ ~OutsideRadius(calculateDistanceSq(centerLat, centerLon,
                                                      at[1].lat, at[1].lon),
                                  searchRadius)
                     => CandidatesOf(element) # {}

\* how many candidates the second pass has looked at
Looked ==
  IF pc = "dedup" THEN idx - 1
  ELSE IF pc \in {"cap", "done"} THEN Len(rawPlaces)
  ELSE 0

\* the positions in rawPlaces, among the first n, of the candidates that are
\* no near-duplicate of a candidate accepted before them
RECURSIVE AcceptedAmong(_)
AcceptedAmong(n) ==
  IF n = 0 THEN {}
  ELSE IF \E i \in AcceptedAmong(n - 1) : NearDuplicate(rawPlaces[i], rawPlaces[n])
    THEN AcceptedAmong(n - 1)
  ELSE AcceptedAmong(n - 1) \cup {n}

\* the candidates at the positions of a set, in the order of rawPlaces
CandidatesAt(positions) ==
  LET ordered == SelectSeq([i \in 1..Len(rawPlaces) |-> i], LAMBDA i : i \in positions)
  IN [k \in 1..Len(ordered) |-> rawPlaces[ordered[k]]]

\* C18: at every step of the second pass the accepted list is, in input order,
\* the candidates looked at so far that are no near-duplicate of an entry
\* accepted before them: the first candidate is always in it, an entry once
\* accepted stays, and a duplicate of a discarded candidate only is accepted.
C18_FirstSeenWins ==
  /\ uniquePlaces = CandidatesAt(AcceptedAmong(Looked))
  /\ Looked >= 1 => uniquePlaces # <<>> /\ uniquePlaces[1] = rawPlaces[1]

\* the second of three candidates was discarded as a near-duplicate of the
\* first, and the third, a near-duplicate of the second only, was accepted
C18_Witness ==
  /\ pc = "cap"
  /\ Len(rawPlaces) = 3
  /\ NearDuplicate(rawPlaces[1], rawPlaces[2])
  /\ NearDuplicate(rawPlaces[2], rawPlaces[3])
  /\ ~NearDuplicate(rawPlaces[1], rawPlaces[3])
  /\ uniquePlaces = <<rawPlaces[1], rawPlaces[3]>>

\* one row of the scoring table: its points when its condition holds
Points(condition, points) == IF condition THEN points ELSE 0

\* the sum of the table of section 4.6 for a Place; an operator is present
\* when details.operator is a string that is not empty
TableScore(place) ==
    Points(place.name # S_Unknown, 20)
  + Points(place.details.operator \notin {Undefined, <<>>}, 15)
  + Points(place.details.emergency = TRUE, 25)
  + Points(place.details.amenity \in {S_hospital, S_clinic, S_pharmacy, S_school,
                                      S_university}, 10)
  + Points(place.category = "healthcare", 5)
  - Points(ToLowerCase(place.name) \in {S_pharmacy, S_hospital, S_school,
                                        S_bus_stop_name}, 5)

\* C19: the quality score of every scored Place is the sum of the table's rows
\* for that Place alone, whatever else the list holds; details.emergency is
\* true exactly for the tag emergency = yes; a named hospital with
\* emergency = yes scores at least 45.
C19_ScoreIsTableSum ==
  /\ \A i \in 1..Len(scoredPlaces) :
       LET place == scoredPlaces[i]
       IN /\ place.qualityScore = TableScore(place)
          /\ (place.name # S_Unknown /\ place.details.amenity = S_hospital
              /\ place.details.emergency) => place.qualityScore >= 45
  /\ \A i \in 1..Len(data.elements) :
       \A place \in CandidatesOf(data.elements[i]) :
         place.details.emergency <=> Prop(TagsOf(data.elements[i]), "emergency") = S_yes

\* one of two scored Places is a hospital without a name tag or operator: its
\* name is the amenity value "hospital", a generic label, and with
\* emergency = yes it scores 20 + 25 + 10 + 5 - 5
C19_Witness ==
  /\ Len(scoredPlaces) = 2
  /\ \E i \in 1..2 :
       /\ scoredPlaces[i].name = S_hospital
       /\ scoredPlaces[i].details.operator = Undefined
       /\ scoredPlaces[i].details.emergency
       /\ scoredPlaces[i].qualityScore = 55

\* the letters: those of ASCII and those outside it
Letter == UpperCase \cup LowerCase \cup NonAsciiLetter

\* none of the four reasons of section 4.4 applies to the name
NoReasonToReject(name) ==
  /\ Len(name) >= 2 /\ Len(name) <= 100
  /\ \E i \in 1..Len(name) : name[i] \in Letter
  /\ ~Blacklisted(name)
  /\ ToLowerCase(name) \notin {S_building, S_structure, S_facility, S_site}

\* the element is classifiable, has coordinates and lies within radius + 100
PassesTestsButName(element) ==
  /\ categorizePlace(TagsOf(element)) # Null
  /\ ~Falsy(CoordOf(element, "lat")) /\ ~Falsy(CoordOf(element, "lon"))
  /\ ~OutsideRadius(calculateDistanceSq(centerLat, centerLon,
                                        CoordOf(element, "lat")[1],
                                        CoordOf(element, "lon")[1]), searchRadius)

\* C20: a record that passes the other tests is a candidate whenever its
\* resolved name has 2 to 100 characters, a letter among them, no blacklisted
\* substring, and is not, case folded, one of the four generic words; it is
\* none when its name has 1 or 101 characters.
C20_OnlyFourReasons ==
  Collected =>
    \A i \in 1..Len(data.elements) :
      LET element == data.elements[i]
          name == ResolveName(element)
      IN PassesTestsButName(element) =>
           /\ NoReasonToReject(name) => CandidatesOf(element) # {}
           /\ Len(name) \in {1, 101} => CandidatesOf(element) = {}

\* C21: a record whose resolved name has no letter in it is no candidate.
C21_NoLetterRejected ==
  Collected =>
    \A i \in 1..Len(data.elements) :
      LET name == ResolveName(data.elements[i])
      IN (\A k \in 1..Len(name) : name[k] \notin Letter)
           => CandidatesOf(data.elements[i]) = {}

\* the elements of the provider's list that the Place was made of
ElementsOf(place) ==
  {data.elements[i] : i \in {k \in 1..Len(data.elements) :
                               <<data.elements[k].type, data.elements[k].id>> = place.id}}

Recategorised(raw, to) == [i \in 1..Len(raw) |-> [raw[i] EXCEPT !.category = to[i]]]

\* the places of a list without their categories
WithoutCategory(list) ==
  [i \in 1..Len(list) |->
     [k \in DOMAIN list[i] \ {"category"} |-> list[i][k]]]

\* C23: whatever categories are given to the candidates, their names and
\* coordinates being what they are, the same candidates survive the second
\* pass.
C23_CategoryBlind ==
  pc \in {"cap", "done"} =>
    \A to \in [1..Len(rawPlaces) -> Categories] :
      WithoutCategory(UniqueOf(Recategorised(rawPlaces, to)))
        = WithoutCategory(uniquePlaces)

\* the clinic "Park Clinic", accepted first, has eliminated the school "Park"
\* 10 m away
C23_Witness ==
  /\ pc = "cap"
  /\ Len(rawPlaces) = 2 /\ Len(uniquePlaces) = 1
  /\ rawPlaces[1].category = "healthcare" /\ rawPlaces[2].category = "education"
  /\ uniquePlaces[1] = rawPlaces[1]

\* C24: the quality score of every scored Place is at least 0 and at most 75.
C24_ScoreRange ==
  \A i \in 1..Len(scoredPlaces) :
    scoredPlaces[i].qualityScore >= 0 /\ scoredPlaces[i].qualityScore <= 75

\* a bus stop named "Bus Stop", a generic label, has the named bonus and the
\* penalty and nothing else: 20 - 5
C24_Witness ==
  \E i \in 1..Len(scoredPlaces) :
    /\ ToLowerCase(scoredPlaces[i].name) = S_bus_stop_name
    /\ scoredPlaces[i].category = "transport"
    /\ scoredPlaces[i].qualityScore = 15

\* C25: no two Places of the output have the same id, however often the
\* provider's list holds a record.
C25_DistinctIds ==
  \A i, j \in 1..Len(OutPlaces) : i < j => OutPlaces[i].id # OutPlaces[j].id

\* the provider's list held a valid record twice, with another valid record
\* between the two, and the output holds it once
C25_Witness ==
  /\ Answered
  /\ Len(rawPlaces) = 3
  /\ rawPlaces[1] = rawPlaces[3]
  /\ rawPlaces[2].id # rawPlaces[1].id
  /\ Cardinality({i \in 1..Len(OutPlaces) : OutPlaces[i].id = rawPlaces[1].id}) = 1

\* ---- C26
\* a request that is pending and whose controller has not been aborted
Pending(i) == calls[i].at = "fetch" /\ ~calls[i].aborted

\* C26: after any sequence of searches and completions at most one request of
\* the client is pending without having been aborted
C26_OnePending == Cardinality({i \in 1..Len(calls) : Pending(i)}) <= 1

\* ---- C27
\* the calls of fetchPlaces that belong to a search
AttemptsOf(search) == {i \in 1..Len(calls) : calls[i].search = search}

\* the calls that this step has ended in the way `at`
Ended(at) ==
  {i \in 1..Len(calls') : calls'[i].at = at /\ (i > Len(calls) \/ calls[i].at # at)}

\* C27: a search is attempted at most three times, its retries wait 1 s and
\* then 2 s; a retry is scheduled only by an attempt that failed without being
\* aborted; an attempt that is aborted, by a newer search or by its timeout,
\* schedules no retry and leaves the displayed places alone; the failure of
\* the third attempt clears the places and shows the error
C27_RetryPolicy ==
  [][ /\ \A n \in 1..started' : Cardinality(AttemptsOf(n)') <= 3
      /\ \A t \in timers' : t.retryCount \in {1, 2} /\ t.delay = 1000 * t.retryCount
      /\ \A t \in timers' \ timers :
           \E i \in Ended("failed") \cup Ended("invalid") :
             /\ calls'[i].search = t.search
             /\ calls'[i].retryCount + 1 = t.retryCount
             /\ ~calls'[i].aborted
      /\ Ended("aborted") # {} => timers' = timers /\ shownPlaces' = shownPlaces
      /\ \A i \in Ended("failed") \cup Ended("invalid") :
           IF calls'[i].retryCount = 2
             THEN /\ shownPlaces' = <<>>
                  /\ lastToast' = "error"
                  /\ \A t \in timers' : t \in timers
           ELSE \E t \in timers' \ timers : t.search = calls'[i].search
    ]_vars

\* a search has failed three times and an attempt of the other one was aborted
C27_Witness ==
  /\ \E n \in 1..started :
       /\ Cardinality({i \in AttemptsOf(n) : calls[i].at \in {"failed", "invalid"}}) = 3
  /\ \E i \in 1..Len(calls) : calls[i].at = "aborted"
  /\ lastToast = "error"
  /\ shownPlaces = <<>>

\* ---- C28
\* no request is in flight and no retry is scheduled
Settled ==
  /\ \A i \in 1..Len(calls) : calls[i].at \notin {"fetch", "json"}
  /\ timers = {}

\* the search n has set the places to those of its response
HasShown(n) == \E i \in AttemptsOf(n) : calls[i].at = "shown"

\* C28: once every request and every retry has settled, and the search that
\* started last has shown its places, the places on display are its places:
\* no response and no retry of an older search has replaced them
C28_LatestShown ==
  Settled /\ started > 0 /\ HasShown(started) => shownPlaces = ResponsePlaces(started)

\* ---- C29
\* C29: isLoading is true whenever a request is in flight or a retry is
\* scheduled
C29_LoadingWhileBusy == ~Settled => isLoading

\* ---- C30
\* C30: if every fetch settles and every timer fires, a search that has
\* started leads to a state without a request in flight, without a retry
\* scheduled, and with isLoading false
C30_Terminates == (started > 0) ~> (Settled /\ ~isLoading)

\* two searches have ended, one by its third failure and one with its places
C30_Witness ==
  /\ started = 2
  /\ Settled /\ ~isLoading
  /\ \E i \in 1..Len(calls) : calls[i].at = "shown"
  /\ \E i \in 1..Len(calls) : calls[i].retryCount = 2 /\ calls[i].at = "failed"

====
